---- MODULE Spec2Model ----
(***************************************************************************)
(* A model of the investment balance calculator: interactive_chart.py and  *)
(* its older variant interactive_chart2.py.                                *)
(*                                                                         *)
(*   - calculate_balances : the year-by-year balance loop                   *)
(*   - fetch_history      : retry loop with backoff behind a 6 hour cache   *)
(*   - get_annual_returns / get_crypto_annual_returns : annual extraction   *)
(*   - combine_returns_and_dividends : allocation-weighted union of years   *)
(*                                                                         *)
(* Python floats are modelled by exact rationals <<numerator, denominator>> *)
(* in lowest terms with a positive denominator; the program's values agree *)
(* with them up to floating-point rounding.                                *)
(*                                                                         *)
(* SpecSim runs calculate_balances of either file, SpecFetch runs          *)
(* fetch_history calls against an unreliable upstream while time passes,   *)
(* SpecCombine runs combine_returns_and_dividends of interactive_chart.py  *)
(* over the histories fetch_history hands it while time passes, SpecApp    *)
(* runs a session of either script while time passes (widgets, button,     *)
(* session state, year range and table) and calls of calculate_balances    *)
(* outside a session.                                                      *)
(***************************************************************************)
EXTENDS Integers, Sequences, FiniteSets

VARIABLES
    \* ---- calculate_balances ----
    file,                 \* 1: interactive_chart.py, 2: interactive_chart2.py
    initial_investment,   \* argument
    withdrawal_rate,      \* argument (percent)
    annual_returns,       \* argument: list of percents (floats)
    dividend_yields,      \* argument: list of percents (floats)
    reinvest_dividends,   \* argument
    spc,                  \* "loop" while iterating, "done" after the return
    i,                    \* loop index (0-based, as in the code)
    balance,              \* running balance
    prev_balance,         \* balance after the adjustment of the last iteration
    balances,
    withdrawals,
    percentage_changes,
    dividend_yields_usd,
    total_withdrawals_and_dividends,
    \* ---- fetch_history behind st.cache_data ----
    now,                  \* wall clock, in seconds
    cache,                \* st.cache_data store: key -> [hist, at]
    fetched,              \* log: key -> last response obtained from upstream
    failed,               \* log: keys whose latest call ended by raising
    fpc,                  \* "idle", "try", "returned", "raised"
    f_ticker,             \* argument ticker
    f_crypto,             \* argument crypto
    attempt,              \* loop variable of "for attempt in range(6)"
    last_exc,             \* last exception caught: [msg, attempt]
    sleep_s,              \* last backoff delay slept, in seconds
    hist,                 \* the DataFrame returned
    requests,             \* upstream requests made by the current call
    nsleeps,              \* backoff sleeps made by the current call
    \* ---- combine_returns_and_dividends ----
    portfolio,            \* zip(tickers, allocations, asset_types)
    upstream,             \* log: what the lookup of each ticker so far returned
    cpc,                  \* "loop", "fetch", "done", "raised"
    idx,                  \* loop index of enumerate(...)
    df_combined,          \* the running DataFrame
    pacing,               \* number of time.sleep(0.3) calls made
    \* ---- the Streamlit script (module body) ----
    apc,                  \* "idle", "combine", "view", "simulate"; "call"
                          \* when no script runs and a function is called
    inputs,               \* the ticker / allocation / type widgets
    fetch_clicked,        \* st.button("Fetch / Update Data")
    ss_combined,          \* st.session_state["combined"]
    ss_fetch_error,       \* st.session_state["fetch_error"]
    ss_start_year,        \* st.session_state["start_year"], 0 for None
    ss_end_year,          \* st.session_state["end_year"], 0 for None
    c_exc,                \* the exception that left combine_returns_and_dividends
    shown_error,          \* what st.error shows in this run
    start_default,        \* value= offered by the "Start Year" input
    end_default,          \* value= offered by the "End Year" input
    start_year,           \* lower end of the selected range, 0 before it
    end_year,             \* upper end of the selected range, 0 before it
    filtered_years,       \* the years of the slice
    events                \* what this run has done so far, in order

simVars == <<file, initial_investment, withdrawal_rate, annual_returns,
             dividend_yields, reinvest_dividends, spc, i, balance,
             prev_balance, balances, withdrawals, percentage_changes,
             dividend_yields_usd, total_withdrawals_and_dividends>>

fetchVars == <<now, cache, fetched, failed, fpc, f_ticker, f_crypto, attempt, last_exc,
               sleep_s, hist, requests, nsleeps>>

combVars == <<portfolio, upstream, cpc, idx, df_combined, pacing>>

appVars == <<apc, inputs, fetch_clicked, ss_combined, ss_fetch_error,
             ss_start_year, ss_end_year, c_exc, shown_error, start_default,
             end_default, start_year, end_year, filtered_years, events>>

vars == <<simVars, fetchVars, combVars, appVars>>

-----------------------------------------------------------------------------
(* Exact rational arithmetic standing for Python float arithmetic.          *)

Abs(n) == IF n < 0 THEN -n ELSE n

RECURSIVE GCD(_, _)
GCD(a, b) == IF b = 0 THEN a ELSE GCD(b, a % b)

\* n/d in lowest terms, d > 0
Norm(n, d) ==
    LET g == GCD(Abs(n), Abs(d))
        s == IF d < 0 THEN -1 ELSE 1
    IN  <<s * (n \div g), s * (d \div g)>>

R(n) == <<n, 1>>

RMul(x, y) ==
    LET g1 == GCD(Abs(x[1]), y[2])
        g2 == GCD(Abs(y[1]), x[2])
    IN  IF x[1] = 0 \/ y[1] = 0 THEN <<0, 1>>
        ELSE <<(x[1] \div g1) * (y[1] \div g2), (x[2] \div g2) * (y[2] \div g1)>>

RAdd(x, y) ==
    LET g == GCD(x[2], y[2])
    IN  Norm(x[1] * (y[2] \div g) + y[1] * (x[2] \div g), (x[2] \div g) * y[2])

RNeg(x) == <<-x[1], x[2]>>

RSub(x, y) == RAdd(x, RNeg(y))

\* x / y for y # 0
RDiv(x, y) == RMul(x, IF y[1] < 0 THEN <<-y[2], -y[1]>> ELSE <<y[2], y[1]>>)

RLeq(x, y) == RSub(x, y)[1] <= 0

\* p / 100.0
Pct(p) == RDiv(p, R(100))

-----------------------------------------------------------------------------
(* fetch_history: the upstream, the cache and the retry loop.               *)

MaxTicks == 3

\* the clock advances in steps of three hours, half the ttl: two entries can
\* be of different ages, and one can expire while the other is still served
TickSeconds == 3 * 60 * 60

\* ttl of st.cache_data
CacheTTL == 6 * 60 * 60

\* range(6)
RetryBudget == 6

Tickers == {"SPY"}

Keys == Tickers \X BOOLEAN

\* a daily history: observations in date order, each with the calendar year
\* of its date, the close and the dividend paid on that date
H1 == <<[year |-> 1, close |-> 100, dividend |-> 0],
        [year |-> 2, close |-> 50, dividend |-> 5]>>

H2 == <<[year |-> 2, close |-> 100, dividend |-> 5],
        [year |-> 2, close |-> 200, dividend |-> 5],
        [year |-> 3, close |-> 100, dividend |-> 0]>>

\* a history that lies within one calendar year
H3 == <<[year |-> 1, close |-> 100, dividend |-> 5]>>

\* pd.DataFrame()
EmptyFrame == <<>>

\* what the upstream can answer with when it answers
UpstreamHists == {H1, H2, H3}

\* str(exc) of the exceptions the upstream call can raise
ExcMessages == {"429 Client Error: Too Many Requests", "Rate limited. Try after a while.",
                "Connection reset by peer"}

\* random.random(): values of [0, 1)
Jitters == {<<0, 1>>, <<31, 32>>}

\* what the upstream answers and raises where the combiner does the asking:
\* a history of two years, one of a single year, and an exception whose
\* str() is empty next to a rate limit
AppHists == {H2, H3}

AppExcMessages == {"429 Client Error: Too Many Requests", ""}

AppJitters == {<<0, 1>>}

NoEntry == [hist |-> EmptyFrame, at |-> -1]

NoExc == [msg |-> "", attempt |-> -1]

\* "too many requests", "rate limit" or "429" occurs in the lowered message
_is_rate_limit_error(exc) ==
    exc.msg \in {"429 Client Error: Too Many Requests",
                 "Rate limited. Try after a while."}

RMin(x, y) == IF RLeq(x, y) THEN x ELSE y

RECURSIVE RPow(_, _)
RPow(x, n) == IF n = 0 THEN R(1) ELSE RMul(x, RPow(x, n - 1))

\* the delay slept after attempt a failed with exc, lines 86-90
BackoffDelay_flat(a, exc, jitter) ==
    LET base == Norm(3, 2)
        s == RMin(R(30), RAdd(base, jitter))
    IN  IF _is_rate_limit_error(exc) THEN RMin(R(60), RMul(s, R(2))) ELSE s

BackoffDelay(a, exc, jitter) ==
    LET base == RPow(Norm(3, 2), a)
        s == RMin(R(30), RAdd(base, jitter))
    IN  IF _is_rate_limit_error(exc) THEN RMin(R(60), RMul(s, R(2))) ELSE s

\* the cache key st.cache_data derives from the arguments (the first form
\* ignores the asset class)
CacheKey_tickerOnly(ticker, crypto) == <<ticker, FALSE>>

CacheKey(ticker, crypto) == <<ticker, crypto>>

\* an entry is served until its age reaches the ttl
CacheValid_noExpiry(entry, t) == entry.at >= 0

CacheValid(entry, t) == entry.at >= 0 /\ t < entry.at + CacheTTL

\* "for attempt in range(6)" has another iteration
InRange_sevenTries(a) == a <= RetryBudget

InRange(a) == a < RetryBudget

\* no call of fetch_history is running; nothing cached
FetchIdle ==
    /\ now = 0
    /\ cache = [k \in Keys |-> NoEntry]
    /\ fetched = [k \in Keys |-> NoEntry]
    /\ failed = {}
    /\ fpc = "idle"
    /\ f_ticker = ""
    /\ f_crypto = FALSE
    /\ attempt = 0
    /\ last_exc = NoExc
    /\ sleep_s = R(0)
    /\ hist = EmptyFrame
    /\ requests = 0
    /\ nsleeps = 0

\* time passes
Tick ==
    /\ now < MaxTicks * TickSeconds
    /\ now' = now + TickSeconds
    /\ UNCHANGED <<cache, fetched, failed, fpc, f_ticker, f_crypto, attempt, last_exc,
                   sleep_s, hist, requests, nsleeps>>
    /\ UNCHANGED <<simVars, combVars, appVars>>

\* fetch_history(ticker, crypto) is called and the cache holds a live entry
FetchHit(ticker, crypto) ==
    /\ fpc = "idle"
    /\ CacheValid(cache[CacheKey(ticker, crypto)], now)
    /\ fpc' = "returned"
    /\ f_ticker' = ticker
    /\ f_crypto' = crypto
    /\ hist' = cache[CacheKey(ticker, crypto)].hist
    /\ UNCHANGED <<now, cache, fetched, failed, attempt, last_exc, sleep_s, requests,
                   nsleeps>>

\* fetch_history(ticker, crypto) is called and the body has to run
FetchMiss(ticker, crypto) ==
    /\ fpc = "idle"
    /\ ~CacheValid(cache[CacheKey(ticker, crypto)], now)
    /\ fpc' = "try"
    /\ f_ticker' = ticker
    /\ f_crypto' = crypto
    /\ attempt' = 0
    /\ last_exc' = NoExc
    /\ UNCHANGED <<now, cache, fetched, failed, sleep_s, hist, requests, nsleeps>>

\* an attempt gets a response h (EmptyFrame: None or empty): it is returned
\* and st.cache_data stores it; the locals of the frame go with the return
AttemptResponse(h) ==
    /\ fpc = "try"
    /\ InRange(attempt)
    /\ requests' = requests + 1
    /\ hist' = h
    /\ cache' = [cache EXCEPT ![CacheKey(f_ticker, f_crypto)] =
                     [hist |-> h, at |-> now]]
    /\ fetched' = [fetched EXCEPT ![<<f_ticker, f_crypto>>] =
                     [hist |-> h, at |-> now]]
    /\ failed' = failed \ {<<f_ticker, f_crypto>>}
    /\ fpc' = "returned"
    /\ attempt' = 0
    /\ last_exc' = NoExc
    /\ sleep_s' = R(0)
    /\ UNCHANGED <<now, f_ticker, f_crypto, nsleeps>>
    /\ UNCHANGED <<simVars, combVars, appVars>>

AttemptHist == \E h \in UpstreamHists : AttemptResponse(h)

AttemptEmpty == AttemptResponse(EmptyFrame)

\* an attempt raises: remember the exception, sleep the backoff delay
AttemptRaises(messages, jitters) ==
    /\ fpc = "try"
    /\ InRange(attempt)
    /\ \E m \in messages, jitter \in jitters :
          LET e == [msg |-> m, attempt |-> attempt]
          IN  /\ last_exc' = e
              /\ sleep_s' = BackoffDelay(attempt, e, jitter)
    /\ requests' = requests + 1
    /\ nsleeps' = nsleeps + 1
    /\ attempt' = attempt + 1
    /\ UNCHANGED <<now, cache, fetched, failed, fpc, f_ticker, f_crypto, hist>>
    /\ UNCHANGED <<simVars, combVars, appVars>>

AttemptFail == AttemptRaises(ExcMessages, Jitters)

\* the same attempts when the combiner has called
AppAttemptHist == \E h \in AppHists : AttemptResponse(h)

AppAttemptFail == AttemptRaises(AppExcMessages, AppJitters)

\* the loop is exhausted: raise last_exc (the first form stores an empty
\* result for the key on the way out; st.cache_data stores nothing for a call
\* that raises)
FetchRaise_cachesFailure ==
    /\ fpc = "try"
    /\ ~InRange(attempt)
    /\ fpc' = "raised"
    /\ cache' = [cache EXCEPT ![CacheKey(f_ticker, f_crypto)] =
                     [hist |-> EmptyFrame, at |-> now]]
    /\ failed' = failed \cup {<<f_ticker, f_crypto>>}
    /\ UNCHANGED <<now, fetched, f_ticker, f_crypto, attempt, last_exc,
                   sleep_s, hist, requests, nsleeps>>
    /\ UNCHANGED <<simVars, combVars, appVars>>

FetchRaise ==
    /\ fpc = "try"
    /\ ~InRange(attempt)
    /\ fpc' = "raised"
    /\ failed' = failed \cup {<<f_ticker, f_crypto>>}
    /\ UNCHANGED <<now, cache, fetched, f_ticker, f_crypto, attempt, last_exc,
                   sleep_s, hist, requests, nsleeps>>
    /\ UNCHANGED <<simVars, combVars, appVars>>

\* the caller has taken the result or the exception; the frame is gone
FrameGone ==
    /\ fpc' = "idle"
    /\ f_ticker' = ""
    /\ f_crypto' = FALSE
    /\ attempt' = 0
    /\ last_exc' = NoExc
    /\ sleep_s' = R(0)
    /\ hist' = EmptyFrame
    /\ requests' = 0
    /\ nsleeps' = 0
    /\ UNCHANGED <<now, cache, fetched, failed>>

FetchDone ==
    /\ fpc \in {"returned", "raised"}
    /\ FrameGone
    /\ UNCHANGED <<simVars, combVars, appVars>>

\* fetch_history called on its own
FetchCallHit ==
    /\ \E t \in Tickers, c \in BOOLEAN : FetchHit(t, c)
    /\ UNCHANGED <<simVars, combVars, appVars>>

FetchCallMiss ==
    /\ \E t \in Tickers, c \in BOOLEAN : FetchMiss(t, c)
    /\ UNCHANGED <<simVars, combVars, appVars>>


-----------------------------------------------------------------------------
(* pandas Series and DataFrames.                                            *)
(* An Index is [kind, labels]: kind "datetime" has year-end dates           *)
(* <<y, 12, 31>> as labels, kind "int" has years, kind "range" is the       *)
(* RangeIndex of an empty Series. A Series is [index, values].              *)

NaN == <<0, 0>>

EmptySeries == [index |-> [kind |-> "range", labels |-> <<>>], values |-> <<>>]

\* the order of labels
KeyOf(kind, l) == IF kind = "datetime" THEN l[1] * 10000 + l[2] * 100 + l[3] ELSE l

Range(q) == {q[k] : k \in 1..Len(q)}

SetMin(S) == CHOOSE m \in S : \A n \in S : m <= n

SetMax(S) == CHOOSE m \in S : \A n \in S : n <= m

RECURSIVE SortBy(_, _)
SortBy(kind, S) ==
    IF S = {} THEN <<>>
    ELSE LET m == CHOOSE l \in S : \A n \in S : KeyOf(kind, l) <= KeyOf(kind, n)
         IN  <<m>> \o SortBy(kind, S \ {m})

\* Index.union: an empty side or equal sides give the other side as it is,
\* anything else the sorted union of the labels
IndexUnion(a, b) ==
    IF a.labels = <<>> THEN b
    ELSE IF b.labels = <<>> THEN a
    ELSE IF a.labels = b.labels THEN a
    ELSE [kind |-> a.kind,
          labels |-> SortBy(a.kind, Range(a.labels) \cup Range(b.labels))]

Position(labels, l) == CHOOSE k \in 1..Len(labels) : labels[k] = l

\* values.reindex(index, fill_value=fill)
ReindexValues(index0, values, index1, fill) ==
    [k \in 1..Len(index1.labels) |->
        IF index1.labels[k] \in Range(index0.labels)
        THEN values[Position(index0.labels, index1.labels[k])]
        ELSE fill]

\* Series.dropna()
RECURSIVE KeepIdx(_, _)
KeepIdx(values, k) ==
    IF k > Len(values) THEN <<>>
    ELSE (IF values[k] = NaN THEN <<>> ELSE <<k>>) \o KeepIdx(values, k + 1)

Dropna(ser) ==
    LET keep == KeepIdx(ser.values, 1)
    IN  [index |-> [kind |-> ser.index.kind,
                    labels |-> [k \in 1..Len(keep) |-> ser.index.labels[keep[k]]]],
         values |-> [k \in 1..Len(keep) |-> ser.values[keep[k]]]]

\* float arithmetic with NaN
FMul(x, y) == IF x = NaN \/ y = NaN THEN NaN ELSE RMul(x, y)

FAdd(x, y) == IF x = NaN \/ y = NaN THEN NaN ELSE RAdd(x, y)

-----------------------------------------------------------------------------
(* get_annual_returns and get_crypto_annual_returns                         *)

\* the year-end bins of resample("YE"): first to last calendar year
YearEndIndex(h) ==
    [kind |-> "datetime",
     labels |-> [k \in 1..(h[Len(h)].year - h[1].year + 1) |->
                    <<h[1].year + k - 1, 12, 31>>]]

\* hist["Close"].resample("YE").ffill(): the last close on or before year end
CloseAtYearEnd(h, y) ==
    h[SetMax({k \in 1..Len(h) : h[k].year <= y})].close

ResampleCloseFfill(h) ==
    LET ix == YearEndIndex(h)
    IN  [index |-> ix,
         values |-> [k \in 1..Len(ix.labels) |-> R(CloseAtYearEnd(h, ix.labels[k][1]))]]

\* hist["Dividends"].resample("YE").sum()
RECURSIVE DividendsIn(_, _, _)
DividendsIn(h, y, k) ==
    IF k > Len(h) THEN 0
    ELSE (IF h[k].year = y THEN h[k].dividend ELSE 0) + DividendsIn(h, y, k + 1)

ResampleDividendsSum(h) ==
    LET ix == YearEndIndex(h)
    IN  [index |-> ix,
         values |-> [k \in 1..Len(ix.labels) |-> R(DividendsIn(h, ix.labels[k][1], 1))]]

\* Series.pct_change() * 100.0
PctChange100_fromFirst(ser) ==
    [index |-> ser.index,
     values |-> [k \in 1..Len(ser.values) |->
                    IF k = 1 THEN R(0)
                    ELSE FMul(RSub(RDiv(ser.values[k], ser.values[k - 1]), R(1)),
                              R(100))]]

PctChange100(ser) ==
    [index |-> ser.index,
     values |-> [k \in 1..Len(ser.values) |->
                    IF k = 1 THEN NaN
                    ELSE FMul(RSub(RDiv(ser.values[k], ser.values[k - 1]), R(1)),
                              R(100))]]

\* (dividends / closes) * 100.0, closes being positive
YieldPercent(divs, closes) ==
    [index |-> divs.index,
     values |-> [k \in 1..Len(divs.values) |->
                    RMul(RDiv(divs.values[k], closes.values[k]), R(100))]]

YearsOf(index) == [k \in 1..Len(index.labels) |-> index.labels[k][1]]

get_annual_returns(h) ==
    IF h = EmptyFrame
    THEN [annual_returns |-> EmptySeries, dividend_yields |-> EmptySeries,
          years |-> <<>>]
    ELSE LET ar == Dropna(PctChange100(ResampleCloseFfill(h)))
             dy == Dropna(YieldPercent(ResampleDividendsSum(h), ResampleCloseFfill(h)))
         IN  [annual_returns |-> ar, dividend_yields |-> dy,
              years |-> YearsOf(ar.index)]

get_crypto_annual_returns(h) ==
    IF h = EmptyFrame
    THEN [annual_returns |-> EmptySeries, years |-> <<>>]
    ELSE LET ar == Dropna(PctChange100(ResampleCloseFfill(h)))
         IN  [annual_returns |-> ar, years |-> YearsOf(ar.index)]

-----------------------------------------------------------------------------
(* combine_returns_and_dividends                                            *)

MaxAssets == 2

MaxObs == 2

LastYear == 3

Allocations == {50, 100}

AssetTypes == {"Stock", "Crypto"}

\* (close, dividend) of one trading day
DayValues == {<<100, 0>>, <<50, 5>>}

\* the non-empty daily histories: dates strictly increasing, so the years of
\* the observations never decrease
Hists ==
    UNION {
        {[k \in 1..n |-> [year |-> ys[k], close |-> vs[k][1], dividend |-> vs[k][2]]] :
            ys \in {q \in [1..n -> 1..LastYear] :
                       \A k \in 1..(n - 1) : q[k] <= q[k + 1]},
            vs \in [1..n -> DayValues]} :
        n \in 1..MaxObs}

\* pd.DataFrame(columns=["annual_return", "dividend_yield"], dtype=float)
EmptyCombined ==
    [index |-> [kind |-> "object", labels |-> <<>>],
     annual_return |-> <<>>, dividend_yield |-> <<>>]

\* the two series of one ticker (lines 130-134)
TickerSeries(asset_type, h) ==
    IF asset_type = "Crypto"
    THEN LET c == get_crypto_annual_returns(h)
         IN  [annual_returns |-> c.annual_returns,
              dividend_yields |->
                  [index |-> c.annual_returns.index,
                   values |-> [k \in 1..Len(c.annual_returns.values) |-> R(0)]]]
    ELSE LET g == get_annual_returns(h)
         IN  [annual_returns |-> g.annual_returns,
              dividend_yields |-> g.dividend_yields]

\* df_ticker with its weighted columns (lines 136-145)
TickerFrame(allocation, asset_type, h) ==
    LET t == TickerSeries(asset_type, h)
        idx_union == IndexUnion(t.annual_returns.index, t.dividend_yields.index)
        ar == ReindexValues(t.annual_returns.index, t.annual_returns.values,
                            idx_union, R(0))
        dy == ReindexValues(t.dividend_yields.index, t.dividend_yields.values,
                            idx_union, R(0))
    IN  [index |-> idx_union,
         annual_return |-> [k \in 1..Len(ar) |-> FMul(ar[k], Pct(R(allocation)))],
         dividend_yield |-> [k \in 1..Len(dy) |-> FMul(dy[k], Pct(R(allocation)))]]

\* df_ticker.index.year exists for a DatetimeIndex only
HasYearAccessor(index) == index.kind = "datetime"

\* lines 147-152: merge df_ticker, whose index is a DatetimeIndex, into df
MergeTicker(df, tf) ==
    LET tindex == [kind |-> "int", labels |-> YearsOf(tf.index)]
        cindex == IndexUnion(df.index, tindex)
        c_ar == ReindexValues(df.index, df.annual_return, cindex, R(0))
        c_dy == ReindexValues(df.index, df.dividend_yield, cindex, R(0))
        t_ar == ReindexValues(tindex, tf.annual_return, cindex, R(0))
        t_dy == ReindexValues(tindex, tf.dividend_yield, cindex, R(0))
    IN  [index |-> cindex,
         annual_return |-> [k \in 1..Len(cindex.labels) |-> FAdd(c_ar[k], t_ar[k])],
         dividend_yield |-> [k \in 1..Len(cindex.labels) |-> FAdd(c_dy[k], t_dy[k])]]

\* df.sort_index()
SortIndex(df) ==
    LET sorted == [kind |-> df.index.kind,
                   labels |-> SortBy(df.index.kind, Range(df.index.labels))]
    IN  [index |-> sorted,
         annual_return |-> ReindexValues(df.index, df.annual_return, sorted, R(0)),
         dividend_yield |-> ReindexValues(df.index, df.dividend_yield, sorted, R(0))]

\* combine_returns_and_dividends is not running
CombIdle ==
    /\ portfolio = <<>>
    /\ upstream = <<>>
    /\ cpc = "done"
    /\ idx = 0
    /\ df_combined = EmptyCombined
    /\ pacing = 0

\* the call on a cold cache: the arguments, lines 122-123
CombEnter ==
    /\ \E n \in 1..MaxAssets :
          portfolio \in [1..n -> [ticker : Tickers, allocation : Allocations,
                                  asset_type : AssetTypes]]
    /\ upstream = <<>>
    /\ cpc = "loop"
    /\ idx = 0
    /\ df_combined = EmptyCombined
    /\ pacing = 0

\* lines 136-152: the history h the lookup returned is turned into the
\* ticker's weighted frame and merged
MergeStep(h) ==
    /\ cpc = "fetch"
    /\ idx < Len(portfolio)
    /\ upstream' = Append(upstream, h)
    /\ LET a == portfolio[idx + 1]
           tf == TickerFrame(a.allocation, a.asset_type, h)
       IN  IF HasYearAccessor(tf.index)
           THEN /\ df_combined' = MergeTicker(df_combined, tf)
                /\ idx' = idx + 1
                /\ cpc' = "loop"
           ELSE \* AttributeError: the index has no attribute 'year'
                /\ cpc' = "raised"
                /\ UNCHANGED <<df_combined, idx>>
    /\ UNCHANGED portfolio

\* the upstream answers an attempt of a lookup of the combiner
CombAttemptHist == \E h \in Hists : AttemptResponse(h)

\* lines 154-155: sort and return
CombineReturn ==
    /\ cpc = "loop"
    /\ idx = Len(portfolio)
    /\ df_combined' = SortIndex(df_combined)
    /\ cpc' = "done"
    /\ UNCHANGED <<portfolio, upstream, idx, pacing>>
    /\ UNCHANGED <<simVars, fetchVars, appVars>>

-----------------------------------------------------------------------------
(* Bounds and input sets of calculate_balances.                             *)

MaxYears == 2

InitialInvestments == {0, 1000, 100000}
WithdrawalRates == {0, 4, 100}
ReturnPercents == {-150, -100, -50, 10}
YieldPercents == {0, 2}

-----------------------------------------------------------------------------
(* calculate_balances                                                       *)

\* step 2 of the loop body: the first year of the slice never withdraws
Withdrawal_everyYear(n, bal, rate) == RMul(bal, Pct(R(rate)))

\* the rate taken of the initial investment instead of the running balance
Withdrawal_ofInitial(n, bal, rate) ==
    IF n > 0 THEN RMul(R(initial_investment), Pct(R(rate))) ELSE R(0)

Withdrawal(n, bal, rate) ==
    IF n > 0 THEN RMul(bal, Pct(R(rate))) ELSE R(0)

\* step 3 of the loop body: the balance after withdrawal and dividend
AdjustBalance_alwaysSubtract(f, bal, withdrawal, dividend_yield_usd, reinvest) ==
    IF reinvest
    THEN RAdd(RSub(bal, withdrawal), dividend_yield_usd)
    ELSE RSub(bal, RAdd(withdrawal, dividend_yield_usd))

AdjustBalance(f, bal, withdrawal, dividend_yield_usd, reinvest) ==
    IF reinvest
    THEN RAdd(RSub(bal, withdrawal), dividend_yield_usd)
    ELSE IF f = 1
         THEN RSub(bal, withdrawal)
         ELSE RSub(bal, RAdd(withdrawal, dividend_yield_usd))

\* what a float division by zero leaves instead of a value
ZeroDivisionError == <<1, 0>>

\* Python's x / y on floats: raises ZeroDivisionError when y is 0
PyDiv(x, y) == IF y[1] = 0 THEN ZeroDivisionError ELSE RDiv(x, y)

\* step 6: percent change relative to the adjusted balance
PercentageChange_overResult(bal, prev) ==
    IF bal[1] # 0 THEN RMul(RDiv(RSub(bal, prev), bal), R(100)) ELSE R(0)

\* the guard "if prev_balance != 0" left out
PercentageChange_unguarded(bal, prev) ==
    LET q == PyDiv(RSub(bal, prev), prev)
    IN  IF q = ZeroDivisionError THEN q ELSE RMul(q, R(100))

\* the "* 100" left out
PercentageChange_fraction(bal, prev) ==
    IF prev[1] # 0 THEN PyDiv(RSub(bal, prev), prev) ELSE R(0)

PercentageChange(bal, prev) ==
    IF prev[1] # 0
    THEN LET q == PyDiv(RSub(bal, prev), prev)
         IN  IF q = ZeroDivisionError THEN q ELSE RMul(q, R(100))
    ELSE R(0)

\* the state after construction of the locals, lines 19-24
CalcEnter ==
    /\ file \in {1, 2}
    /\ initial_investment \in InitialInvestments
    /\ withdrawal_rate \in WithdrawalRates
    /\ \E n \in 0..MaxYears :
          /\ annual_returns \in [1..n -> {R(p) : p \in ReturnPercents}]
          /\ dividend_yields \in [1..n -> {R(p) : p \in YieldPercents}]
    /\ reinvest_dividends \in BOOLEAN
    /\ spc = "loop"
    /\ i = 0
    /\ balance = R(initial_investment)
    /\ prev_balance = R(initial_investment)
    /\ balances = <<>>
    /\ withdrawals = <<>>
    /\ percentage_changes = <<>>
    /\ dividend_yields_usd = <<>>
    /\ total_withdrawals_and_dividends = <<>>

\* one iteration of "for i in range(len(annual_returns))"
CalcYear ==
    /\ spc = "loop"
    /\ i < Len(annual_returns)
    /\ LET dividend_yield_usd == RMul(balance, Pct(dividend_yields[i + 1]))
           withdrawal == Withdrawal(i, balance, withdrawal_rate)
           adjusted == AdjustBalance(file, balance, withdrawal,
                                     dividend_yield_usd, reinvest_dividends)
           total == RAdd(withdrawal,
                         IF reinvest_dividends THEN R(0) ELSE dividend_yield_usd)
           grown == RMul(adjusted, RAdd(R(1), Pct(annual_returns[i + 1])))
           percentage_change == PercentageChange(grown, adjusted)
           raised == percentage_change = ZeroDivisionError
       IN  /\ dividend_yields_usd' = Append(dividend_yields_usd, dividend_yield_usd)
           /\ withdrawals' = Append(withdrawals, withdrawal)
           /\ total_withdrawals_and_dividends' =
                  Append(total_withdrawals_and_dividends, total)
           /\ prev_balance' = adjusted
           /\ balance' = grown
           /\ balances' = Append(balances, grown)
           /\ percentage_changes' =
                  IF raised THEN percentage_changes
                  ELSE Append(percentage_changes, percentage_change)
           /\ i' = IF raised THEN i ELSE i + 1
           /\ spc' = IF raised THEN "raised" ELSE spc
    /\ UNCHANGED <<file, initial_investment, withdrawal_rate, annual_returns,
                   dividend_yields, reinvest_dividends>>
    /\ UNCHANGED <<fetchVars, combVars, appVars>>

\* the loop is exhausted: return the five lists
CalcReturn ==
    /\ spc = "loop"
    /\ i = Len(annual_returns)
    /\ spc' = "done"
    /\ UNCHANGED <<file, initial_investment, withdrawal_rate, annual_returns,
                   dividend_yields, reinvest_dividends, i, balance,
                   prev_balance, balances, withdrawals, percentage_changes,
                   dividend_yields_usd, total_withdrawals_and_dividends>>
    /\ UNCHANGED <<fetchVars, combVars, appVars>>

\* calculate_balances is not running
NoSimulation ==
    /\ initial_investment = 0
    /\ withdrawal_rate = 0
    /\ annual_returns = <<>>
    /\ dividend_yields = <<>>
    /\ reinvest_dividends = FALSE
    /\ spc = "done"
    /\ i = 0
    /\ balance = R(0)
    /\ prev_balance = R(0)
    /\ balances = <<>>
    /\ withdrawals = <<>>
    /\ percentage_changes = <<>>
    /\ dividend_yields_usd = <<>>
    /\ total_withdrawals_and_dividends = <<>>

SimIdle == file = 1 /\ NoSimulation

-----------------------------------------------------------------------------
(* The Streamlit script: widgets, session state, the fetch button, the     *)
(* year range and the table.                                               *)

\* None in st.session_state["combined"]
NoCombined ==
    [index |-> [kind |-> "none", labels |-> <<>>],
     annual_return |-> <<>>, dividend_yield |-> <<>>]

\* None in st.session_state["fetch_error"], and no st.error
NoError == "None"

\* "if st.session_state["fetch_error"]:" (line 223): None and the empty
\* string are both false
Truthy(msg) == msg # NoError /\ msg # ""

\* a session before its first run
SessionNew ==
    /\ inputs = <<>>
    /\ fetch_clicked = FALSE
    /\ ss_combined = NoCombined
    /\ ss_fetch_error = NoError
    /\ ss_start_year = 0
    /\ ss_end_year = 0
    /\ c_exc = NoError
    /\ shown_error = NoError
    /\ start_default = 0
    /\ end_default = 0
    /\ start_year = 0
    /\ end_year = 0
    /\ filtered_years = <<>>
    /\ events = <<>>

\* the script is not running and the session is new
AppIdle == apc = "idle" /\ SessionNew

\* no script at all: calculate_balances is called on its own
NoScript == apc = "call" /\ SessionNew

MaxRows == 2

\* st.text_input(...).strip().upper()
RawTickers == {"", "SPY"}

\* value=100.0 / num_assets of the allocation input (exact for 1 and 2 rows)
DefaultAllocation(num_assets) == 100 \div num_assets

\* one row of widgets; a row left without a ticker keeps the first option of
\* its selectbox
WidgetRow(n) ==
    {r \in [ticker : RawTickers, allocation : {DefaultAllocation(n)},
            asset_type : AssetTypes] :
        r.ticker = "" => r.asset_type = "Stock"}

\* what the asset widgets can hold: num_assets rows
WidgetRows == UNION {[1..n -> WidgetRow(n)] : n \in 1..MaxRows}

\* the rows with a ticker (line 203)
Clean(rows) == SelectSeq(rows, LAMBDA r : r.ticker # "")

InvalidInputMsg == "Enter at least one ticker."

NoDataMsg == "No data available for the provided tickers."

\* str(e) of the AttributeError of df_ticker.index.year
AttributeErrorMsg == "'RangeIndex' object has no attribute 'year'"

\* the text of st.error in interactive_chart.py (line 224)
ErrorShown(msg) == "Error fetching data: " \o msg

\* the text of st.error in interactive_chart2.py (line 304)
ErrorShown2(msg) == "Error fetching data for the provided tickers: " \o msg

\* an exception nothing catches: Streamlit shows it and the run is over
UncaughtShown(msg) == "Uncaught exception: " \o msg

\* combine_returns_and_dividends is called: lines 122-123
CombCall(tickers) ==
    /\ portfolio' = tickers
    /\ upstream' = <<>>
    /\ cpc' = "loop"
    /\ idx' = 0
    /\ df_combined' = EmptyCombined
    /\ pacing' = 0

\* the frame of combine_returns_and_dividends is gone
CombGone ==
    /\ portfolio' = <<>>
    /\ upstream' = <<>>
    /\ cpc' = "done"
    /\ idx' = 0
    /\ df_combined' = EmptyCombined
    /\ pacing' = 0

\* a script run starts: nothing shown yet, no year range yet
RunStart ==
    /\ apc = "idle"
    /\ events' = <<>>
    /\ start_default' = 0
    /\ end_default' = 0
    /\ start_year' = 0
    /\ end_year' = 0
    /\ filtered_years' = <<>>
    /\ c_exc' = NoError

\* interactive_chart.py reruns without a click on the button: lines 223-229
AppRerun ==
    /\ file = 1
    /\ RunStart
    /\ fetch_clicked' = FALSE
    /\ shown_error' = IF Truthy(ss_fetch_error)
                      THEN ErrorShown(ss_fetch_error) ELSE NoError
    /\ apc' = IF ss_combined # NoCombined THEN "view" ELSE "idle"
    /\ UNCHANGED <<inputs, ss_combined, ss_fetch_error, ss_start_year, ss_end_year>>
    /\ UNCHANGED <<simVars, fetchVars, combVars>>

\* the button is clicked and no row has a ticker: lines 201-206, 223-225
AppClickEmpty ==
    /\ file = 1
    /\ RunStart
    /\ \E rows \in WidgetRows :
          /\ Clean(rows) = <<>>
          /\ inputs' = rows
    /\ fetch_clicked' = TRUE
    /\ ss_combined' = NoCombined
    /\ ss_fetch_error' = InvalidInputMsg
    /\ shown_error' = ErrorShown(InvalidInputMsg)
    /\ apc' = "idle"
    /\ UNCHANGED <<ss_start_year, ss_end_year>>
    /\ UNCHANGED <<simVars, fetchVars, combVars>>

\* the button is clicked and some row has a ticker: lines 201-212
AppClickCombine ==
    /\ file = 1
    /\ RunStart
    /\ \E rows \in WidgetRows :
          /\ Clean(rows) # <<>>
          /\ inputs' = rows
          /\ CombCall(Clean(rows))
    /\ fetch_clicked' = TRUE
    /\ shown_error' = NoError
    /\ apc' = "combine"
    /\ UNCHANGED <<ss_combined, ss_fetch_error, ss_start_year, ss_end_year>>
    /\ UNCHANGED <<simVars, fetchVars>>

\* the variables of the script a step of the combiner leaves alone
AppRest == <<apc, inputs, fetch_clicked, ss_combined, ss_fetch_error,
             ss_start_year, ss_end_year, shown_error, start_default,
             end_default, start_year, end_year, filtered_years>>

\* what the log keeps of one lookup: whether time.sleep(0.3) came before it
\* (lines 127-128, interactive_chart.py only) and whether it went to the
\* upstream
Lookup(a, network) ==
    [ticker |-> a.ticker, crypto |-> (a.asset_type = "Crypto"),
     paced |-> (file = 1 /\ idx > 0), network |-> network]

\* lines 127-128: time.sleep(0.3) before every ticker but the first
PacingSleep == pacing' = IF idx > 0 THEN pacing + 1 ELSE pacing

\* the next ticker, lines 126-128: the pacing sleep; the lookup comes after it
AppSleep ==
    /\ file = 1
    /\ cpc = "loop"
    /\ idx < Len(portfolio)
    /\ PacingSleep
    /\ cpc' = "fetch"
    /\ UNCHANGED <<portfolio, upstream, idx, df_combined>>
    /\ UNCHANGED <<simVars, fetchVars, appVars>>

\* what a lookup leaves alone until it is back
LookupFrame == UNCHANGED <<simVars, combVars, appVars>>

\* lines 130-134: fetch_history is called and st.cache_data answers
AppCallHit ==
    /\ file = 1
    /\ cpc = "fetch"
    /\ FetchHit(portfolio[idx + 1].ticker,
                portfolio[idx + 1].asset_type = "Crypto")
    /\ LookupFrame

\* lines 130-134: fetch_history is called and its body runs
AppCallMiss ==
    /\ file = 1
    /\ cpc = "fetch"
    /\ FetchMiss(portfolio[idx + 1].ticker,
                 portfolio[idx + 1].asset_type = "Crypto")
    /\ LookupFrame

\* the history is back: lines 136-152; the AttributeError of line 147
\* leaves the function with its message
AppTake ==
    /\ fpc = "returned"
    /\ MergeStep(hist)
    /\ UNCHANGED pacing
    /\ c_exc' = IF cpc' = "raised" THEN AttributeErrorMsg ELSE c_exc
    /\ events' = Append(events, Lookup(portfolio[idx + 1], requests > 0))
    /\ FrameGone
    /\ UNCHANGED AppRest
    /\ UNCHANGED simVars

\* the combiner swallows the exception and goes on with the next ticker
AppFetchRaised_skipTicker ==
    /\ fpc = "raised"
    /\ cpc = "fetch"
    /\ cpc' = "loop"
    /\ idx' = idx + 1
    /\ upstream' = Append(upstream, EmptyFrame)
    /\ c_exc' = last_exc.msg
    /\ events' = Append(events, Lookup(portfolio[idx + 1], requests > 0))
    /\ FrameGone
    /\ UNCHANGED <<portfolio, df_combined, pacing>>
    /\ UNCHANGED AppRest
    /\ UNCHANGED simVars

\* fetch_history has raised last_exc (line 92): nothing in the combiner
\* catches it
AppFetchRaised ==
    /\ fpc = "raised"
    /\ cpc = "fetch"
    /\ cpc' = "raised"
    /\ c_exc' = last_exc.msg
    /\ events' = Append(events, Lookup(portfolio[idx + 1], requests > 0))
    /\ FrameGone
    /\ UNCHANGED <<portfolio, upstream, idx, df_combined, pacing>>
    /\ UNCHANGED AppRest
    /\ UNCHANGED simVars

\* the error is stored and the series of an earlier fetch is kept
AppNoData_keepCombined ==
    /\ file = 1
    /\ apc = "combine"
    /\ cpc = "done"
    /\ Len(df_combined.annual_return) = 0
    /\ ss_fetch_error' = NoDataMsg
    /\ shown_error' = ErrorShown(NoDataMsg)
    /\ apc' = "idle"
    /\ CombGone
    /\ UNCHANGED <<inputs, fetch_clicked, ss_combined, ss_start_year,
                   ss_end_year, c_exc, start_default, end_default, start_year,
                   end_year, filtered_years, events>>
    /\ UNCHANGED <<simVars, fetchVars>>

\* lines 213-215 and 223-225: the combined series is empty
AppNoData ==
    /\ file = 1
    /\ apc = "combine"
    /\ cpc = "done"
    /\ Len(df_combined.annual_return) = 0
    /\ ss_combined' = NoCombined
    /\ ss_fetch_error' = NoDataMsg
    /\ shown_error' = ErrorShown(NoDataMsg)
    /\ apc' = "idle"
    /\ CombGone
    /\ UNCHANGED <<inputs, fetch_clicked, ss_start_year, ss_end_year, c_exc,
                   start_default, end_default, start_year, end_year,
                   filtered_years, events>>
    /\ UNCHANGED <<simVars, fetchVars>>

\* lines 216-218: the combined series is stored
AppStore ==
    /\ file = 1
    /\ apc = "combine"
    /\ cpc = "done"
    /\ Len(df_combined.annual_return) # 0
    /\ ss_combined' = df_combined
    /\ ss_fetch_error' = NoError
    /\ apc' = "view"
    /\ CombGone
    /\ UNCHANGED <<inputs, fetch_clicked, ss_start_year, ss_end_year, c_exc,
                   shown_error, start_default, end_default, start_year,
                   end_year, filtered_years, events>>
    /\ UNCHANGED <<simVars, fetchVars>>

\* the error is stored and the series of an earlier fetch is kept
AppExcept_keepCombined ==
    /\ file = 1
    /\ apc = "combine"
    /\ cpc = "raised"
    /\ ss_fetch_error' = c_exc
    /\ shown_error' = IF Truthy(c_exc) THEN ErrorShown(c_exc) ELSE NoError
    /\ apc' = "idle"
    /\ CombGone
    /\ UNCHANGED <<inputs, fetch_clicked, ss_combined, ss_start_year,
                   ss_end_year, c_exc, start_default, end_default, start_year,
                   end_year, filtered_years, events>>
    /\ UNCHANGED <<simVars, fetchVars>>

\* lines 219-221 and 223-225: whatever combine_returns_and_dividends raised
AppExcept ==
    /\ file = 1
    /\ apc = "combine"
    /\ cpc = "raised"
    /\ ss_combined' = NoCombined
    /\ ss_fetch_error' = c_exc
    /\ shown_error' = IF Truthy(c_exc) THEN ErrorShown(c_exc) ELSE NoError
    /\ apc' = "idle"
    /\ CombGone
    /\ UNCHANGED <<inputs, fetch_clicked, ss_start_year, ss_end_year, c_exc,
                   start_default, end_default, start_year, end_year,
                   filtered_years, events>>
    /\ UNCHANGED <<simVars, fetchVars>>

\* "combined" of line 227, the locals of line 211 in interactive_chart2.py
Combined == IF file = 1 THEN ss_combined ELSE df_combined

ViewYears == Combined.index.labels

\* value= of the two number inputs (lines 239 and 247)
StartDefault ==
    IF ss_start_year # 0 THEN ss_start_year ELSE SetMin(Range(ViewYears))

EndDefault ==
    IF ss_end_year # 0 THEN ss_end_year ELSE SetMax(Range(ViewYears))

\* st.number_input accepts a value within [min_value, max_value] only
NumberInputAccepts(value, min_value, max_value) ==
    min_value <= value /\ value <= max_value

\* the upper end left out
SliceIdx_exclusiveEnd(years, lo, hi) ==
    SelectSeq([k \in 1..Len(years) |-> k],
              LAMBDA k : years[k] >= lo /\ years[k] < hi)

\* the positions of the years within [lo, hi], in order (lines 262-264)
SliceIdx(years, lo, hi) ==
    SelectSeq([k \in 1..Len(years) |-> k],
              LAMBDA k : years[k] >= lo /\ years[k] <= hi)

Selected(values, years, lo, hi) ==
    LET keep == SliceIdx(years, lo, hi)
    IN  [j \in 1..Len(keep) |-> values[keep[j]]]

\* the widgets above the assets, at their defaults (lines 164-166)
InitialInvestmentInput == 100000

WithdrawalRateInput == 4

ReinvestInput == FALSE

\* an exception in the view: nothing catches it in interactive_chart.py,
\* the try of interactive_chart2.py does (line 303)
ViewRaises(msg) ==
    /\ shown_error' = IF file = 1 THEN UncaughtShown(msg) ELSE ErrorShown2(msg)
    /\ apc' = "idle"
    /\ CombGone
    /\ UNCHANGED <<inputs, fetch_clicked, ss_combined, ss_fetch_error,
                   ss_start_year, ss_end_year, c_exc, start_year, end_year,
                   filtered_years, events>>
    /\ UNCHANGED <<simVars, fetchVars>>

\* lines 236-252: a persisted year lies outside the years of this series and
\* st.number_input raises StreamlitAPIException
AppViewBadDefault ==
    /\ apc = "view"
    /\ LET lo == SetMin(Range(ViewYears))
           hi == SetMax(Range(ViewYears))
       IN  /\ \/ ~NumberInputAccepts(StartDefault, lo, hi)
              \/ ~NumberInputAccepts(EndDefault, lo, hi)
           /\ start_default' = StartDefault
           /\ end_default' = IF NumberInputAccepts(StartDefault, lo, hi)
                             THEN EndDefault ELSE 0
    /\ ViewRaises("StreamlitAPIException")

\* lines 254-258: a number input holds a year the series does not have and
\* st.select_slider raises ValueError
AppViewBadOption ==
    /\ apc = "view"
    /\ LET lo == SetMin(Range(ViewYears))
           hi == SetMax(Range(ViewYears))
       IN  /\ NumberInputAccepts(StartDefault, lo, hi)
           /\ NumberInputAccepts(EndDefault, lo, hi)
           /\ \E start_year_input \in lo..hi, end_year_input \in lo..hi :
                 {start_year_input, end_year_input} \ Range(ViewYears) # {}
    /\ start_default' = StartDefault
    /\ end_default' = EndDefault
    /\ ViewRaises("ValueError")

\* lines 236-272: the range is chosen, persisted, the slice is cut and
\* calculate_balances is called with it
AppViewSlice ==
    /\ apc = "view"
    /\ LET lo == SetMin(Range(ViewYears))
           hi == SetMax(Range(ViewYears))
       IN  /\ NumberInputAccepts(StartDefault, lo, hi)
           /\ NumberInputAccepts(EndDefault, lo, hi)
           /\ \E start_year_input \in lo..hi, end_year_input \in lo..hi :
                 /\ {start_year_input, end_year_input} \subseteq Range(ViewYears)
                 \* the slider hands back its value in order, or where the
                 \* user has moved it to
                 /\ \E a \in Range(ViewYears), b \in Range(ViewYears) :
                       /\ a <= b
                       /\ start_year' = a
                       /\ end_year' = b
    /\ start_default' = StartDefault
    /\ end_default' = EndDefault
    /\ ss_start_year' = start_year'
    /\ ss_end_year' = end_year'
    /\ filtered_years' = Selected(ViewYears, ViewYears, start_year', end_year')
    /\ initial_investment' = InitialInvestmentInput
    /\ withdrawal_rate' = WithdrawalRateInput
    /\ reinvest_dividends' = ReinvestInput
    /\ annual_returns' = Selected(Combined.annual_return, ViewYears,
                                  start_year', end_year')
    /\ dividend_yields' = Selected(Combined.dividend_yield, ViewYears,
                                   start_year', end_year')
    /\ spc' = "loop"
    /\ i' = 0
    /\ balance' = R(InitialInvestmentInput)
    /\ prev_balance' = R(InitialInvestmentInput)
    /\ balances' = <<>>
    /\ withdrawals' = <<>>
    /\ percentage_changes' = <<>>
    /\ dividend_yields_usd' = <<>>
    /\ total_withdrawals_and_dividends' = <<>>
    /\ apc' = "simulate"
    /\ UNCHANGED <<file, inputs, fetch_clicked, ss_combined, ss_fetch_error,
                   c_exc, shown_error, events>>
    /\ UNCHANGED <<fetchVars, combVars>>

\* lines 274-303: the table and the chart are drawn, the run is over
AppShow ==
    /\ apc = "simulate"
    /\ spc = "done"
    /\ apc' = "idle"
    /\ initial_investment' = 0
    /\ withdrawal_rate' = 0
    /\ annual_returns' = <<>>
    /\ dividend_yields' = <<>>
    /\ reinvest_dividends' = FALSE
    /\ i' = 0
    /\ balance' = R(0)
    /\ prev_balance' = R(0)
    /\ balances' = <<>>
    /\ withdrawals' = <<>>
    /\ percentage_changes' = <<>>
    /\ dividend_yields_usd' = <<>>
    /\ total_withdrawals_and_dividends' = <<>>
    /\ CombGone
    /\ UNCHANGED <<file, spc>>
    /\ UNCHANGED <<inputs, fetch_clicked, ss_combined, ss_fetch_error,
                   ss_start_year, ss_end_year, c_exc, shown_error,
                   start_default, end_default, start_year, end_year,
                   filtered_years, events>>
    /\ UNCHANGED fetchVars

\* interactive_chart2.py runs: every run calls the combiner with the rows
\* as they are (lines 204-214)
App2Run ==
    /\ file = 2
    /\ RunStart
    /\ \E rows \in WidgetRows :
          /\ inputs' = rows
          /\ CombCall(rows)
    /\ shown_error' = NoError
    /\ apc' = "combine"
    /\ UNCHANGED <<fetch_clicked, ss_combined, ss_fetch_error, ss_start_year,
                   ss_end_year>>
    /\ UNCHANGED <<simVars, fetchVars>>

\* str(e) of what the pandas code of interactive_chart2.py raises on a
\* history without rows
EmptyHistoryMsg == "'Dividends'"

\* one iteration of interactive_chart2.py: data.history(period="max") is
\* asked directly and answers with a history
App2LookupHist ==
    /\ file = 2
    /\ apc = "combine"
    /\ cpc = "loop"
    /\ idx < Len(portfolio)
    /\ fpc = "idle"
    /\ portfolio[idx + 1].ticker # ""
    /\ \E h \in AppHists : hist' = h
    /\ requests' = requests + 1
    /\ fpc' = "returned"
    /\ cpc' = "fetch"
    /\ UNCHANGED <<now, cache, fetched, failed, f_ticker, f_crypto, attempt,
                   last_exc, sleep_s, nsleeps>>
    /\ UNCHANGED <<portfolio, upstream, idx, df_combined, pacing>>
    /\ UNCHANGED <<simVars, appVars>>

\* the upstream has nothing for the symbol and the frame it hands back goes
\* through the pandas code: nothing is added
App2LookupEmpty ==
    /\ file = 2
    /\ apc = "combine"
    /\ cpc = "loop"
    /\ idx < Len(portfolio)
    /\ fpc = "idle"
    /\ events' = Append(events, Lookup(portfolio[idx + 1], TRUE))
    /\ idx' = idx + 1
    /\ upstream' = Append(upstream, EmptyFrame)
    /\ UNCHANGED <<portfolio, cpc, pacing, df_combined, c_exc>>
    /\ UNCHANGED AppRest
    /\ UNCHANGED <<simVars, fetchVars>>

\* the upstream call raises, or the pandas code does on a frame without
\* rows: line 303 catches it
App2LookupRaise ==
    /\ file = 2
    /\ apc = "combine"
    /\ cpc = "loop"
    /\ idx < Len(portfolio)
    /\ fpc = "idle"
    /\ events' = Append(events, Lookup(portfolio[idx + 1], TRUE))
    /\ \E m \in AppExcMessages \cup {EmptyHistoryMsg} :
          /\ c_exc' = m
          /\ shown_error' = ErrorShown2(m)
    /\ apc' = "idle"
    /\ CombGone
    /\ UNCHANGED <<inputs, fetch_clicked, ss_combined, ss_fetch_error,
                   ss_start_year, ss_end_year, start_default, end_default,
                   start_year, end_year, filtered_years>>
    /\ UNCHANGED <<simVars, fetchVars>>

\* lines 216-218 of interactive_chart2.py: the combined series is empty
App2NoData ==
    /\ file = 2
    /\ apc = "combine"
    /\ cpc = "done"
    /\ Len(df_combined.annual_return) = 0
    /\ shown_error' = NoDataMsg
    /\ apc' = "idle"
    /\ CombGone
    /\ UNCHANGED <<inputs, fetch_clicked, ss_combined, ss_fetch_error,
                   ss_start_year, ss_end_year, c_exc, start_default,
                   end_default, start_year, end_year, filtered_years, events>>
    /\ UNCHANGED <<simVars, fetchVars>>

\* line 219 of interactive_chart2.py: on to the year range
App2View ==
    /\ file = 2
    /\ apc = "combine"
    /\ cpc = "done"
    /\ Len(df_combined.annual_return) # 0
    /\ apc' = "view"
    /\ UNCHANGED <<inputs, fetch_clicked, ss_combined, ss_fetch_error,
                   ss_start_year, ss_end_year, c_exc, shown_error,
                   start_default, end_default, start_year, end_year,
                   filtered_years, events>>
    /\ UNCHANGED <<simVars, fetchVars, combVars>>

-----------------------------------------------------------------------------
(* Specifications: one per subsystem, the others held idle.                 *)

InitSim == CalcEnter /\ FetchIdle /\ CombIdle /\ AppIdle

NextSim == CalcYear \/ CalcReturn

SpecSim == InitSim /\ [][NextSim]_vars

InitFetch == SimIdle /\ FetchIdle /\ CombIdle /\ AppIdle

NextFetch ==
    \/ Tick
    \/ FetchCallHit
    \/ FetchCallMiss
    \/ AttemptHist
    \/ AttemptEmpty
    \/ AttemptFail
    \/ FetchRaise
    \/ FetchDone

SpecFetch == InitFetch /\ [][NextFetch]_vars

InitCombine == SimIdle /\ FetchIdle /\ CombEnter /\ AppIdle

NextCombine ==
    \/ Tick
    \/ AppSleep
    \/ AppCallHit
    \/ AppCallMiss
    \/ CombAttemptHist
    \/ AttemptEmpty
    \/ AppAttemptFail
    \/ FetchRaise
    \/ AppTake
    \/ AppFetchRaised
    \/ CombineReturn

SpecCombine == InitCombine /\ [][NextCombine]_vars

\* a session of either script: runs follow one another, the session state
\* and the cache live on between them while time passes; or no session, and
\* calculate_balances is called with lists of any length, none included
InitApp ==
    \/ file \in {1, 2} /\ NoSimulation /\ FetchIdle /\ CombIdle /\ AppIdle
    \/ CalcEnter /\ FetchIdle /\ CombIdle /\ NoScript

NextApp ==
    \/ Tick
    \/ AppRerun
    \/ AppClickEmpty
    \/ AppClickCombine
    \/ AppSleep
    \/ AppCallHit
    \/ AppCallMiss
    \/ AppAttemptHist
    \/ AttemptEmpty
    \/ AppAttemptFail
    \/ FetchRaise
    \/ AppTake
    \/ AppFetchRaised
    \/ CombineReturn
    \/ AppNoData
    \/ AppStore
    \/ AppExcept
    \/ AppViewBadDefault
    \/ AppViewBadOption
    \/ AppViewSlice
    \/ CalcYear
    \/ CalcReturn
    \/ AppShow
    \/ App2Run
    \/ App2LookupHist
    \/ App2LookupEmpty
    \/ App2LookupRaise
    \/ App2NoData
    \/ App2View

SpecApp == InitApp /\ [][NextApp]_vars

-----------------------------------------------------------------------------
(* Properties of calculate_balances (SpecSim).                              *)

\* the balance the k-th iteration (1-based) started from
StartBalance(k) == IF k = 1 THEN R(initial_investment) ELSE balances[k - 1]

Growth(k) == RAdd(R(1), Pct(annual_returns[k]))

\* C1: every recorded balance is (B - withdrawal + dividend) * (1 + return/100)
\* with reinvestment and (B - withdrawal) * (1 + return/100) without it, B
\* being the previously recorded balance; the dividend is never subtracted.
C1_BalanceRecurrence ==
    \A k \in 1..Len(balances) :
        balances[k] =
            IF reinvest_dividends
            THEN RMul(RAdd(RSub(StartBalance(k), withdrawals[k]),
                           dividend_yields_usd[k]), Growth(k))
            ELSE RMul(RSub(StartBalance(k), withdrawals[k]), Growth(k))

ScenarioInputs(reinvest) ==
    /\ initial_investment = 100000
    /\ withdrawal_rate = 4
    /\ reinvest_dividends = reinvest
    /\ annual_returns = <<R(10)>>
    /\ dividend_yields = <<R(2)>>

ScenarioDone(reinvest) == ScenarioInputs(reinvest) /\ spc = "done"

\* C2 as stated: the pay-out scenario ends with dividend 2000, withdrawal 0,
\* total 2000, adjusted balance 98000, balance 107800 and percent change 7.8.
C2_ScenarioAsStated ==
    ScenarioDone(FALSE) =>
        /\ dividend_yields_usd = <<R(2000)>>
        /\ withdrawals = <<R(0)>>
        /\ total_withdrawals_and_dividends = <<R(2000)>>
        /\ prev_balance = R(98000)
        /\ balances = <<R(107800)>>
        /\ percentage_changes = <<Norm(78, 10)>>

\* C2 amended: the pay-out scenario ends with dividend 2000, withdrawal 0,
\* total 2000 and percent change 10; interactive_chart.py leaves the adjusted
\* balance at 100000 and records 110000, interactive_chart2.py subtracts the
\* dividend (98000) and records 107800.
C2_ScenarioPayOut ==
    ScenarioDone(FALSE) =>
        /\ dividend_yields_usd = <<R(2000)>>
        /\ withdrawals = <<R(0)>>
        /\ total_withdrawals_and_dividends = <<R(2000)>>
        /\ percentage_changes = <<R(10)>>
        /\ file = 1 => prev_balance = R(100000) /\ balances = <<R(110000)>>
        /\ file = 2 => prev_balance = R(98000) /\ balances = <<R(107800)>>

C2_Witness == ScenarioDone(FALSE) /\ file = 1 /\ Len(balances) = 1

\* C3 as stated: the reinvesting scenario ends with adjusted balance 102000,
\* balance 112200 and percent change 12.2.
C3_ScenarioAsStated ==
    ScenarioDone(TRUE) =>
        /\ prev_balance = R(102000)
        /\ balances = <<R(112200)>>
        /\ percentage_changes = <<Norm(122, 10)>>

\* C3 amended: the reinvesting scenario ends with adjusted balance 102000,
\* balance 112200 and percent change 10 (the year's return).
C3_ScenarioReinvest ==
    ScenarioDone(TRUE) =>
        /\ prev_balance = R(102000)
        /\ balances = <<R(112200)>>
        /\ percentage_changes = <<R(10)>>

C3_Witness == ScenarioDone(TRUE) /\ Len(percentage_changes) = 1

\* C4: the first year of the slice withdraws 0 whatever the rate, the balance
\* and the reinvest flag; every later year withdraws the previously recorded
\* balance times withdrawal_rate / 100.
C4_WithdrawalRule ==
    \A k \in 1..Len(withdrawals) :
        withdrawals[k] =
            IF k = 1 THEN R(0)
            ELSE RMul(balances[k - 1], Pct(R(withdrawal_rate)))

C4_Witness ==
    /\ Len(withdrawals) >= 2
    /\ withdrawal_rate > 0
    /\ withdrawals[1] = R(0)
    /\ withdrawals[2][1] > 0

\* C16: calculate_balances never raises: a year whose balance after the
\* adjustment is 0 records a percent change of 0, and the loop goes on to
\* return five lists with one entry for every year of the input.
C16_ZeroBalanceGuard ==
    /\ spc # "raised"
    /\ (i > 0 /\ prev_balance[1] = 0) =>
           /\ Len(percentage_changes) = i
           /\ percentage_changes[i] = R(0)
    /\ spc = "done" =>
           /\ i = Len(annual_returns)
           /\ Len(percentage_changes) = Len(annual_returns)
           /\ Len(balances) = Len(annual_returns)

\* a return of -100 empties the balance in year 1 and year 2 is still recorded
C16_Witness ==
    /\ spc = "done"
    /\ i = 2
    /\ initial_investment > 0
    /\ annual_returns[1] = R(-100)
    /\ prev_balance[1] = 0
    /\ percentage_changes[2] = R(0)

\* C20: in a year whose balance after the adjustment is not 0 the recorded
\* percent change is that year's annual return, whatever the initial balance,
\* the withdrawal rate, the dividend yield and the reinvest flag are.
C20_ChangeIsReturn ==
    (i > 0 /\ spc # "raised" /\ prev_balance[1] # 0) =>
        percentage_changes[i] = annual_returns[i]

\* a second year with a withdrawal and a paid-out dividend
C20_Witness ==
    /\ spc = "done"
    /\ i = 2
    /\ withdrawal_rate = 4
    /\ dividend_yields[2] = R(2)
    /\ ~reinvest_dividends
    /\ withdrawals[2][1] > 0
    /\ prev_balance[1] # 0
    /\ percentage_changes[2] = R(-50)

\* the inputs the claim is about: a balance that is not negative, a rate
\* within [0, 100], no return below -100, no negative yield
SaneInputs ==
    /\ initial_investment >= 0
    /\ withdrawal_rate >= 0 /\ withdrawal_rate <= 100
    /\ \A k \in 1..Len(annual_returns) : RLeq(R(-100), annual_returns[k])
    /\ \A k \in 1..Len(dividend_yields) : RLeq(R(0), dividend_yields[k])

\* C21: in interactive_chart.py, on such inputs, every recorded balance,
\* dividend amount, withdrawal and total is >= 0 and no withdrawal exceeds
\* the balance it is taken from.
C21_NothingNegative ==
    (file = 1 /\ SaneInputs) =>
        \A k \in 1..Len(balances) :
            /\ RLeq(R(0), balances[k])
            /\ RLeq(R(0), dividend_yields_usd[k])
            /\ RLeq(R(0), withdrawals[k])
            /\ RLeq(R(0), total_withdrawals_and_dividends[k])
            /\ RLeq(withdrawals[k], StartBalance(k))

\* the whole balance is withdrawn in the second year after a loss in the
\* first, with a dividend paid out on top
C21_Witness ==
    /\ file = 1
    /\ SaneInputs
    /\ spc = "done"
    /\ i = 2
    /\ withdrawal_rate = 100
    /\ ~reinvest_dividends
    /\ annual_returns[1] = R(-50)
    /\ dividend_yields[2] = R(2)
    /\ balances[1][1] > 0
    /\ withdrawals[2] = balances[1]
    /\ dividend_yields_usd[2][1] > 0
    /\ balances[2] = R(0)

-----------------------------------------------------------------------------
(* Properties of fetch_history (SpecFetch).                                 *)

\* C8: a call makes at most 6 upstream requests; while the loop runs every
\* failed attempt has been followed by one backoff sleep; the call returns
\* with the response of the first attempt that yields one (an empty response
\* included, with no retry); it raises only after 6 failed attempts, and then
\* the exception of the 6th attempt.
C8_AtMostSixAttempts ==
    /\ requests <= 6
    /\ fpc = "try" => requests = attempt /\ nsleeps = attempt
    /\ (fpc = "returned" /\ requests > 0) =>
          /\ nsleeps = requests - 1
          /\ hist = fetched[<<f_ticker, f_crypto>>].hist
    /\ fpc = "raised" => requests = 6 /\ last_exc.attempt = 5

C8_Witness == fpc = "raised" /\ requests = 6 /\ nsleeps >= 5

ConsecutiveRateLimited ==
    /\ fpc = "try"
    /\ fpc' = "try"
    /\ attempt' = attempt + 1
    /\ _is_rate_limit_error(last_exc)
    /\ _is_rate_limit_error(last_exc')

\* C9 as stated: whatever the jitter, the delay slept after a rate-limited
\* failure is never smaller than the delay slept after the rate-limited
\* failure of the attempt before.
C9_MonotoneAsStated ==
    [][ConsecutiveRateLimited => RLeq(sleep_s, sleep_s')]_vars

DelayWithinCap ==
    last_exc.attempt >= 0 =>
        IF _is_rate_limit_error(last_exc)
        THEN RLeq(sleep_s, R(60))
        ELSE RLeq(sleep_s, R(30))

\* C9 amended: the delay after a rate-limited failure never exceeds 60 s and
\* the delay after any other failure never exceeds 30 s; from the third
\* attempt on (attempt index >= 2) the delay after a rate-limited failure is
\* not smaller than the delay after a rate-limited failure of the attempt
\* before, whatever the jitter.
C9_BackoffBounds ==
    /\ []DelayWithinCap
    /\ [][(ConsecutiveRateLimited /\ last_exc.attempt >= 2) =>
             RLeq(sleep_s, sleep_s')]_vars

C9_Witness ==
    /\ fpc = "try"
    /\ last_exc.attempt = 3
    /\ _is_rate_limit_error(last_exc)
    /\ RLeq(R(6), sleep_s)

\* C10: a call whose key was last answered by the upstream less than 6 hours
\* ago returns that answer with no upstream request and no sleep; any other
\* call enters the retry loop. Keys are (ticker, crypto) pairs.
C10_CacheServes ==
    [][(fpc = "idle" /\ fpc' # "idle") =>
          LET k == <<f_ticker', f_crypto'>>
          IN  IF fetched[k].at >= 0 /\ now < fetched[k].at + 6 * 60 * 60
              THEN /\ fpc' = "returned"
                   /\ hist' = fetched[k].hist
                   /\ requests' = 0
                   /\ nsleeps' = 0
              ELSE /\ fpc' = "try"
                   /\ attempt' = 0
                   /\ requests' = 0]_vars

C10_Witness ==
    /\ fpc = "returned"
    /\ requests = 0
    /\ fetched[<<f_ticker, f_crypto>>].at >= 0
    /\ now > fetched[<<f_ticker, f_crypto>>].at
    /\ hist = fetched[<<f_ticker, f_crypto>>].hist
    /\ fetched[<<f_ticker, ~f_crypto>>].at >= 0
    /\ fetched[<<f_ticker, ~f_crypto>>].hist # hist

\* the (symbol, class) of the running call
CallKey == <<f_ticker, f_crypto>>

\* from the entry of a call to the moment its exception has been taken, every
\* step but the one that returns a response leaves the cache as it is
FailureStoresNothing ==
    /\ (fpc = "idle" /\ fpc' = "try") => cache' = cache
    /\ (fpc \in {"try", "raised"} /\ fpc' # "returned") => cache' = cache

\* a call for a key whose latest call raised runs the body from attempt 0
NextCallStartsOver ==
    (fpc = "idle" /\ fpc' # "idle" /\ <<f_ticker', f_crypto'>> \in failed) =>
        /\ fpc' = "try"
        /\ attempt' = 0
        /\ requests' = 0
        /\ nsleeps' = 0
        /\ last_exc' = NoExc

\* such a call has its 6 attempts: the requests counted are those of its own
\* attempts, and it raises only after 6 of them
FreshBudget ==
    CallKey \in failed =>
        /\ fpc = "try" => requests = attempt /\ attempt <= 6
        /\ fpc = "raised" => requests = 6

\* C22: a call that exhausts its retries leaves the cache unchanged for its
\* key, nothing being stored for the failure; the next call for the same
\* (symbol, class) contacts the upstream again with a fresh budget of 6
\* attempts instead of replaying the failure.
C22_FailureNotCached ==
    /\ [][FailureStoresNothing /\ NextCallStartsOver]_vars
    /\ [](cache = fetched)
    /\ []FreshBudget

\* the call after a failed one, made at once, has used its 6 attempts too
C22_Witness ==
    /\ fpc = "try"
    /\ CallKey \in failed
    /\ now = 0
    /\ attempt = 6
    /\ requests = 6
    /\ cache[CallKey] = NoEntry

-----------------------------------------------------------------------------
(* Properties of combine_returns_and_dividends (SpecCombine).               *)

\* the annual series of the a-th asset of the portfolio
AssetSeries(a) == TickerSeries(portfolio[a].asset_type, upstream[a])

\* the years for which a series has a value
SeriesYears(ser) == {ser.index.labels[k][1] : k \in 1..Len(ser.index.labels)}

\* the years of the a-th asset: those get_annual_returns and
\* get_crypto_annual_returns hand back as the asset's years (lines 106 and
\* 117), the years that have a return
AssetYears(a) == SeriesYears(AssetSeries(a).annual_returns)

\* the value of a series for year y, 0 where it has none
ValueAt(ser, y) ==
    IF y \in SeriesYears(ser)
    THEN ser.values[CHOOSE k \in 1..Len(ser.values) : ser.index.labels[k][1] = y]
    ELSE R(0)

RECURSIVE WeightedReturn(_, _)
WeightedReturn(y, n) ==
    IF n = 0 THEN R(0)
    ELSE RAdd(WeightedReturn(y, n - 1),
              RMul(Pct(R(portfolio[n].allocation)),
                   ValueAt(AssetSeries(n).annual_returns, y)))

RECURSIVE WeightedYield(_, _)
WeightedYield(y, n) ==
    IF n = 0 THEN R(0)
    ELSE RAdd(WeightedYield(y, n - 1),
              RMul(Pct(R(portfolio[n].allocation)),
                   IF y \in AssetYears(n)
                   THEN ValueAt(AssetSeries(n).dividend_yields, y)
                   ELSE R(0)))

\* C5: the combined series has exactly the years of the assets, ascending and
\* without duplicates, and for each of them the sum over the assets of
\* allocation/100 times the asset's return (dividend yield), taken as 0 for
\* a year that is none of the asset's; allocations are not normalised.
C5_UnionZeroFill ==
    cpc = "done" =>
        LET years == df_combined.index.labels
        IN  /\ \A k \in 1..(Len(years) - 1) : years[k] < years[k + 1]
            /\ Range(years) = UNION {AssetYears(a) : a \in 1..Len(portfolio)}
            /\ \A k \in 1..Len(years) :
                  /\ df_combined.annual_return[k] =
                         WeightedReturn(years[k], Len(portfolio))
                  /\ df_combined.dividend_yield[k] =
                         WeightedYield(years[k], Len(portfolio))

SingleAssetDone == cpc = "done" /\ Len(portfolio) = 1

\* C6: a single asset at 100% comes back as its own annual series: the years
\* of get_annual_returns / get_crypto_annual_returns and, for each of them,
\* the asset's return and dividend yield.
C6_SingleAssetUnchanged ==
    (SingleAssetDone /\ portfolio[1].allocation = 100) =>
        LET own == AssetSeries(1)
            years == YearsOf(own.annual_returns.index)
        IN  /\ df_combined.index.labels = years
            /\ df_combined.annual_return = own.annual_returns.values
            /\ \A k \in 1..Len(years) :
                  k <= Len(df_combined.dividend_yield) =>
                      df_combined.dividend_yield[k] =
                          ValueAt(own.dividend_yields, years[k])

\* C7: the first calendar year of a stock's daily history is no year of the
\* series combined for that stock alone.
C7_FirstYearExcluded ==
    (SingleAssetDone /\ portfolio[1].asset_type = "Stock"
                     /\ upstream[1] # EmptyFrame) =>
        upstream[1][1].year \notin Range(df_combined.index.labels)

\* the assets of the portfolio whose history is not empty, in order
WithHistory == {a \in 1..Len(portfolio) : upstream[a] # EmptyFrame}

\* the first k assets with a history merged one after the other
RECURSIVE MergedUpTo(_)
MergedUpTo(k) ==
    IF k = 0 THEN EmptyCombined
    ELSE IF k \in WithHistory
         THEN MergeTicker(MergedUpTo(k - 1),
                          TickerFrame(portfolio[k].allocation,
                                      portfolio[k].asset_type, upstream[k]))
         ELSE MergedUpTo(k - 1)

\* C13: a ticker with an empty history is no error: the call returns, and
\* what it returns is the combination of the other tickers alone.
C13_EmptyHistorySkipped ==
    (\E a \in 1..Len(upstream) : upstream[a] = EmptyFrame) =>
        /\ cpc # "raised"
        /\ cpc = "done" => df_combined = SortIndex(MergedUpTo(Len(portfolio)))

-----------------------------------------------------------------------------
(* Properties of the script and its session (SpecApp).                      *)

\* a fetch action is under way or was the last thing this run did: the button
\* was clicked (interactive_chart.py), any run (interactive_chart2.py)
FetchAction == inputs # <<>> /\ (file = 1 => fetch_clicked)

\* C11: a fetch action over rows none of which has a ticker ends with the
\* error "Enter at least one ticker." and at no point calls the combiner,
\* fetch_history or the upstream.
C11_NoTickerNoFetch ==
    (FetchAction /\ Clean(inputs) = <<>>) =>
        /\ apc = "idle"
        /\ cpc = "done"
        /\ fpc = "idle"
        /\ events = <<>>
        /\ shown_error = ErrorShown(InvalidInputMsg)

\* the key fetch_history was called with in the k-th lookup of this run
LookupKey(k) == <<events[k].ticker, events[k].crypto>>

InCallerOrder ==
    /\ Len(events) <= Len(Clean(inputs))
    /\ \A k \in 1..Len(events) :
          /\ events[k].ticker = Clean(inputs)[k].ticker
          /\ events[k].crypto = (Clean(inputs)[k].asset_type = "Crypto")

\* C14: the lookups follow the caller's order and the pacing delay
\* is slept before exactly those lookups, other than the first, that go to
\* the upstream; none is slept before a lookup the cache answers.
C14_PacingAsStated ==
    file = 1 =>
        /\ InCallerOrder
        /\ \A k \in 1..Len(events) :
              events[k].paced <=> (k > 1 /\ events[k].network)

\* the years of the combined series within the selected range
SeriesYearsInRange == {y \in Range(ViewYears) : start_year <= y /\ y <= end_year}

\* C15 as stated: in interactive_chart.py the slice the simulation is given
\* has as many records as the selected range [start_year, end_year] has
\* years.
C15_RecordPerCalendarYear ==
    (file = 1 /\ apc = "simulate") =>
        Len(annual_returns) = end_year - start_year + 1

\* C15 amended: the slice has one record for each year of the combined series
\* that lies within [start_year, end_year], in ascending order, none for a
\* year of the range the series does not have; calculate_balances returns
\* five lists as long as the lists it was given, empty ones for empty lists.
C15_OneRecordPerYear ==
    /\ spc = "done" =>
          /\ Len(balances) = Len(annual_returns)
          /\ Len(withdrawals) = Len(annual_returns)
          /\ Len(percentage_changes) = Len(annual_returns)
          /\ Len(dividend_yields_usd) = Len(annual_returns)
          /\ Len(total_withdrawals_and_dividends) = Len(annual_returns)
    /\ apc = "simulate" =>
          /\ Len(annual_returns) = Cardinality(SeriesYearsInRange)
          /\ Len(dividend_yields) = Cardinality(SeriesYearsInRange)
          /\ Range(filtered_years) = SeriesYearsInRange
          /\ Len(filtered_years) = Cardinality(SeriesYearsInRange)
          /\ \A k \in 1..(Len(filtered_years) - 1) :
                filtered_years[k] < filtered_years[k + 1]

\* the series has years 1 and 3 and none for year 2; the whole range was
\* selected and simulated: two records
C15_Witness ==
    /\ apc = "simulate"
    /\ spc = "done"
    /\ ViewYears = <<1, 3>>
    /\ start_year = 1
    /\ end_year = 3
    /\ filtered_years = <<1, 3>>
    /\ Len(balances) = 2

\* combine_returns_and_dividends has returned an empty series
EmptyReturned ==
    apc = "combine" /\ cpc = "done" /\ Len(df_combined.annual_return) = 0

\* the last fetch action ended with "No data available for the provided
\* tickers."
NoDataState ==
    IF file = 1 THEN ss_fetch_error = NoDataMsg ELSE shown_error = NoDataMsg

\* the fetch action has ended in the error "No data available for the
\* provided tickers."
NoDataEnd ==
    /\ apc = "idle"
    /\ NoDataState
    /\ file = 1 => shown_error = ErrorShown(NoDataMsg)

\* C17: a fetch action whose combined series is empty goes nowhere but to its
\* end in the error "No data available for the provided tickers."; from then
\* on no combined series is stored and calculate_balances does not run,
\* until a later fetch action replaces the error.
C17_EmptyCombinedIsNoData ==
    /\ [][EmptyReturned => (EmptyReturned' \/ NoDataEnd')]_vars
    /\ [](NoDataState =>
             /\ apc \in {"idle", "combine"}
             /\ NoSimulation
             /\ file = 1 => ss_combined = NoCombined)

\* after an earlier fetch action had stored a series, one came back empty
C17_Witness ==
    /\ file = 1
    /\ apc = "idle"
    /\ NoDataState
    /\ events # <<>>
    /\ ss_start_year # 0
    /\ ss_combined = NoCombined

\* C18: the values offered as defaults to the two range inputs and the start
\* and end year of the slice are years of the combined series now in use.
C18_RangeWithinSeries ==
    Len(ViewYears) > 0 =>
        /\ start_default # 0 => start_default \in Range(ViewYears)
        /\ end_default # 0 => end_default \in Range(ViewYears)
        /\ start_year # 0 => start_year \in Range(ViewYears)
        /\ end_year # 0 => end_year \in Range(ViewYears)

\* C19: in interactive_chart.py the stored series and the stored error are
\* never both set (set: not None); once a fetch action has ended exactly one
\* of them is, the series only when it is not empty, so an action that ends
\* in an error, were it the empty string, leaves no series of an earlier
\* action behind.
C19_SeriesOrError ==
    file = 1 =>
        /\ ~(ss_combined # NoCombined /\ ss_fetch_error # NoError)
        /\ (fetch_clicked /\ apc # "combine") =>
              (ss_combined # NoCombined) # (ss_fetch_error # NoError)
        /\ ss_combined # NoCombined => Len(ss_combined.annual_return) > 0
        /\ (c_exc # NoError /\ apc = "idle") =>
              ss_combined = NoCombined /\ ss_fetch_error = c_exc

\* a fetch action failed after an earlier one had stored a series and its
\* year range had been chosen
C19_Witness ==
    /\ file = 1
    /\ fetch_clicked
    /\ apc = "idle"
    /\ c_exc = AttributeErrorMsg
    /\ ss_start_year # 0
    /\ ss_combined = NoCombined
    /\ ss_fetch_error = AttributeErrorMsg

====
